---------------------------- MODULE Spec2Model ----------------------------
(***************************************************************************)
(* Model of app.py (Analisador de FIIs): the numeric normaliser            *)
(* _clean_num, the three source connectors and their reconciliation in     *)
(* fetch_all, the scoring function parecer, and the CSV ledger with its    *)
(* save and upload-merge handlers.                                         *)
(*                                                                         *)
(* Text is a sequence of one-character strings.  Numbers returned by       *)
(* float() are exact decimals <<m, sc>> meaning m / 10^sc, with trailing   *)
(* zeros of the fraction removed; NoNum is Python's None as the result of  *)
(* a numeric conversion.  Thresholds are kept in hundredths.               *)
(* Non-ASCII letters of the program's keys and messages are written in     *)
(* ASCII.                                                                  *)
(***************************************************************************)
EXTENDS Integers, Sequences, FiniteSets, TLC

VARIABLES
    s_in, num_out, num_done,          \* _clean_num: argument, result, returned
    row, px, px_done,                 \* parecer: argument, result, returned
    pc, resp, rec, data, attempts,    \* fetch_all and the three connectors
    file, df, up, lastRun             \* data/analises.csv and the page script

vars == <<s_in, num_out, num_done, row, px, px_done,
          pc, resp, rec, data, attempts, file, df, up, lastRun>>

numVars    == <<s_in, num_out, num_done>>
scoreVars  == <<row, px, px_done>>
fetchVars  == <<pc, resp, rec, data, attempts>>
ledgerVars == <<file, df, up, lastRun>>

-----------------------------------------------------------------------------
(* Bounds of the model *)

\* Longest text _clean_num is applied to on its own.
MaxLen == 4

\* Most rows the ledger holds before a further analysis is saved.
MaxRows == 2

\* Most rows of an uploaded CSV file.
MaxUpload == 2

-----------------------------------------------------------------------------
(* Python values and string primitives *)

\* Python's None where a text value is expected (a one-element sequence
\* holding a token no text can hold).
None == <<"None">>

\* Python's None where a number is expected.
NoNum == <<>>

Digits == {"0", "1", "2", "3", "4", "5", "6", "7", "8", "9"}

\* "nbsp" stands for the character U+00A0; "x" for any other stray symbol.
Whitespace == {" ", "nbsp"}

DigitVal(c) ==
    CASE c = "0" -> 0 [] c = "1" -> 1 [] c = "2" -> 2 [] c = "3" -> 3
      [] c = "4" -> 4 [] c = "5" -> 5 [] c = "6" -> 6 [] c = "7" -> 7
      [] c = "8" -> 8 [] c = "9" -> 9

RECURSIVE Pow10(_)
Pow10(n) == IF n = 0 THEN 1 ELSE 10 * Pow10(n - 1)

\* str.replace(a, b) for a single character a; b is a text (possibly empty).
RECURSIVE Replace(_, _, _)
Replace(s, a, b) ==
    IF s = <<>> THEN <<>>
    ELSE (IF Head(s) = a THEN b ELSE <<Head(s)>>) \o Replace(Tail(s), a, b)

\* str.count(c)
Count(s, c) == Cardinality({i \in 1..Len(s) : s[i] = c})

\* str.strip()
RECURSIVE LStrip(_)
LStrip(s) ==
    IF s # <<>> /\ Head(s) \in Whitespace THEN LStrip(Tail(s)) ELSE s

RECURSIVE RStrip(_)
RStrip(s) ==
    IF s # <<>> /\ s[Len(s)] \in Whitespace
    THEN RStrip(SubSeq(s, 1, Len(s) - 1)) ELSE s

Strip(s) == RStrip(LStrip(s))

\* re.sub(r"[^\d,.\-]", "", s): every character that is not a digit, a comma,
\* a dot or a hyphen is deleted, wherever it stands.
RECURSIVE ReSubNonNumeric(_)
ReSubNonNumeric(s) ==
    IF s = <<>> THEN <<>>
    ELSE (IF Head(s) \in Digits \cup {",", ".", "-"} THEN <<Head(s)>> ELSE <<>>)
         \o ReSubNonNumeric(Tail(s))

RECURSIVE ToInt(_)
ToInt(ds) ==
    IF ds = <<>> THEN 0
    ELSE 10 * ToInt(SubSeq(ds, 1, Len(ds) - 1)) + DigitVal(ds[Len(ds)])

\* The decimal m / 10^sc without trailing zeros in its fraction.
RECURSIVE Norm(_, _)
Norm(m, sc) ==
    IF sc > 0 /\ m % 10 = 0 THEN Norm(m \div 10, sc - 1) ELSE <<m, sc>>

\* float(t) for a text t without exponent, "inf", "nan" or underscores:
\* [sign] digits [. [digits]]  or  [sign] . digits ; anything else raises
\* ValueError, which the caller turns into None.
float(t) ==
    LET signed == t # <<>> /\ Head(t) \in {"-", "+"}
        body   == IF signed THEN Tail(t) ELSE t
        dots   == Count(body, ".")
        ok     == /\ body # <<>>
                  /\ \A i \in 1..Len(body) : body[i] \in Digits \cup {"."}
                  /\ dots <= 1
                  /\ \E i \in 1..Len(body) : body[i] \in Digits
        dotpos == IF dots = 1 THEN CHOOSE i \in 1..Len(body) : body[i] = "."
                  ELSE Len(body)
        m      == ToInt(SelectSeq(body, LAMBDA c : c \in Digits))
    IN  IF ~ok THEN NoNum
        ELSE Norm(IF signed /\ Head(t) = "-" THEN 0 - m ELSE m,
                  Len(body) - dotpos)

\* _clean_num with the decimal comma left in place (a slip a port of the
\* function could make).
_clean_num_keeps_comma(s) ==
    IF s = None THEN NoNum
    ELSE float(ReSubNonNumeric(Strip(Replace(Replace(s, "nbsp", <<" ">>), "%", <<>>))))

\* _clean_num
_clean_num(s) ==
    IF s = None THEN NoNum
    ELSE LET s1 == Strip(Replace(Replace(s, "nbsp", <<" ">>), "%", <<>>))
             s2 == ReSubNonNumeric(s1)
             s3 == IF Count(s2, ",") = 1 /\ Count(s2, ".") >= 1
                   THEN Replace(Replace(s2, ".", <<>>), ",", <<".">>)
                   ELSE IF Count(s2, ",") = 1 /\ Count(s2, ".") = 0
                   THEN Replace(s2, ",", <<".">>)
                   ELSE s2
         IN  float(s3)

\* v < t/100, v <= t/100 for a number v = <<m, sc>> and a threshold t in
\* hundredths.
NumLt(v, t) == v[1] * 100 < t * Pow10(v[2])
NumLe(v, t) == v[1] * 100 <= t * Pow10(v[2])

-----------------------------------------------------------------------------
(* _clean_num on its own: the argument is any text of at most MaxLen       *)
(* characters over the alphabet.                                           *)

Alphabet == {"0", "5", ",", ".", "-", "+", "%", " ", "nbsp", "x"}

Texts(n) == UNION {[1..k -> Alphabet] : k \in 0..n}

NumInit ==
    /\ s_in \in Texts(MaxLen)
    /\ num_out = NoNum
    /\ num_done = FALSE

CleanNumCall ==
    /\ ~num_done
    /\ num_out' = _clean_num(s_in)
    /\ num_done' = TRUE
    /\ UNCHANGED <<s_in, scoreVars, fetchVars, ledgerVars>>


NumNext == CleanNumCall

-----------------------------------------------------------------------------
(* parecer *)

\* Column names (section "Persistencia", COLUMNS) used as dictionary keys.
K_PVP   == "P/VP"
K_DY    == "Dividend Yield 12m (%)"
K_RISCO == "Classificacao de risco"
K_ALAV  == "Alavancagem (%)"
K_CONC  == "Concentracao maior ativo (%)"

\* The words parecer looks for in the risk classification.
HIGH_YIELD == <<"h", "i", "g", "h", " ", "y", "i", "e", "l", "d">>
ALTO       == <<"a", "l", "t", "o">>
MIDDLE     == <<"m", "i", "d", "d", "l", "e">>
MEDIO      == <<"m", "e_acute", "d", "i", "o">>
GRADE      == <<"g", "r", "a", "d", "e">>
BAIXO      == <<"b", "a", "i", "x", "o">>

\* dict.get / Series.get: the value under key k, or None.
Get(d, k) == IF k \in DOMAIN d THEN d[k] ELSE None

\* `text in s` (substring test)
Contains(s, text) ==
    \E i \in 1..(Len(s) - Len(text) + 1) : SubSeq(s, i, i + Len(text) - 1) = text

\* str.lower() on the letters the sampled texts use.
LowerChar(c) ==
    CASE c = "H" -> "h" [] c = "Y" -> "y" [] c = "G" -> "g" [] c = "M" -> "m"
      [] c = "A" -> "a" [] c = "B" -> "b" [] OTHER -> c

Lower(s) == [i \in 1..Len(s) |-> LowerChar(s[i])]

\* Thresholds of the rule table, in hundredths.
PVP_DESCONTO == 95
PVP_JUSTO    == 105
DY_ALTA      == 1200
DY_OK        == 900
ALAV_CUIDADO == 2000
CONC_RISCO   == 1000
SCORE_VALE   == 3
SCORE_OK     == 1

\* Each rule yields <<increment, messages>>.  A message is named by its
\* fixed wording; the figure formatted into it is left out.
RulePVP_silent(pvp) ==
    IF pvp = NoNum THEN <<0, <<>>>>
    ELSE IF NumLt(pvp, PVP_DESCONTO) THEN <<2, <<"P/VP < 0,95 desconto interessante">>>>
    ELSE IF NumLe(pvp, PVP_JUSTO) THEN <<1, <<"P/VP ~ 1 preco justo">>>>
    ELSE <<0 - 1, <<"P/VP > 1,05 premio; pode estar caro">>>>

RulePVP(pvp) ==
    IF pvp = NoNum THEN <<0, <<"P/VP indisponivel.">>>>
    ELSE IF NumLt(pvp, PVP_DESCONTO) THEN <<2, <<"P/VP < 0,95 desconto interessante">>>>
    ELSE IF ~NumLt(pvp, PVP_DESCONTO) /\ NumLe(pvp, PVP_JUSTO)
         THEN <<1, <<"P/VP ~ 1 preco justo">>>>
    ELSE <<0 - 1, <<"P/VP > 1,05 premio; pode estar caro">>>>

RuleDY_strict(dy) ==
    IF dy = NoNum THEN <<0, <<>>>>
    ELSE IF ~NumLe(dy, DY_ALTA) THEN <<2, <<"DY renda alta">>>>
    ELSE IF ~NumLt(dy, DY_OK) THEN <<1, <<"DY renda ok">>>>
    ELSE <<0 - 1, <<"DY renda baixa">>>>

RuleDY(dy) ==
    IF dy = NoNum THEN <<0, <<>>>>
    ELSE IF ~NumLt(dy, DY_ALTA) THEN <<2, <<"DY renda alta">>>>
    ELSE IF ~NumLt(dy, DY_OK) THEN <<1, <<"DY renda ok">>>>
    ELSE <<0 - 1, <<"DY renda baixa">>>>

RuleRisco(risco) ==
    IF Contains(risco, HIGH_YIELD) \/ Contains(risco, ALTO)
    THEN <<0 - 1, <<"Classificacao High Yield risco elevado">>>>
    ELSE IF Contains(risco, MIDDLE) \/ Contains(risco, MEDIO)
    THEN <<0, <<"Risco medio (middle)">>>>
    ELSE IF Contains(risco, GRADE) \/ Contains(risco, BAIXO)
    THEN <<1, <<"Risco baixo (high grade)">>>>
    ELSE <<0, <<>>>>

RuleAlav(alav) ==
    IF alav = NoNum THEN <<0, <<>>>>
    ELSE IF ~NumLe(alav, ALAV_CUIDADO) THEN <<0 - 1, <<"Alavancagem cuidado">>>>
    ELSE IF ~NumLe(alav, 0) THEN <<0, <<"Alavancagem ok">>>>
    ELSE <<0, <<>>>>

RuleConc(conc) ==
    IF conc # NoNum /\ ~NumLe(conc, CONC_RISCO)
    THEN <<0 - 1, <<"Concentracao no maior ativo risco de credito">>>>
    ELSE <<0, <<>>>>

Veredito(score) ==
    IF score >= SCORE_VALE THEN "Vale a pena (barato/atrativo)"
    ELSE IF score >= SCORE_OK THEN "Ok/Neutro (preco justo)"
    ELSE "Nao vale / Cuidado (caro ou arriscado)"

\* `row.get(k) or ""`, then str().lower()
RiscoText(r) ==
    LET v == Get(r, K_RISCO) IN Lower(IF v = None \/ v = <<>> THEN <<>> ELSE v)

parecer(r) ==
    LET p == RulePVP(_clean_num(Get(r, K_PVP)))
        d == RuleDY(_clean_num(Get(r, K_DY)))
        k == RuleRisco(RiscoText(r))
        a == RuleAlav(_clean_num(Get(r, K_ALAV)))
        c == RuleConc(_clean_num(Get(r, K_CONC)))
        score == p[1] + d[1] + k[1] + a[1] + c[1]
    IN  [score    |-> score,
         veredito |-> Veredito(score),
         detalhes |-> p[2] \o d[2] \o k[2] \o a[2] \o c[2]]

\* The rows parecer is applied to: every combination of the sampled texts.
PVPTexts   == {None, <<"0", ",", "9", "4">>, <<"0", ",", "9", "5">>, <<"1", ",", "0", "5">>, <<"1", ",", "0", "6">>, <<"x">>}
DYTexts    == {None, <<"8", ",", "9", "9">>, <<"9">>, <<"1", "1", ",", "9", "9", "%">>, <<"1", "2">>}
RiscoTexts == {None, <<>>, <<"H", "i", "g", "h", " ", "Y", "i", "e", "l", "d">>, <<"H", "i", "g", "h", " ", "G", "r", "a", "d", "e">>, <<"h", "i", "g", "h">>, <<"M", "i", "d", "d", "l", "e">>,
               <<"m", "e_acute", "d", "i", "o">>, <<"a", "l", "t", "o">>, <<"b", "a", "i", "x", "o">>, <<"g", "r", "a", "d", "e">>, <<"A", "A", "A">>}
AlavTexts  == {None, <<"0">>, <<"5">>, <<"2", "0">>, <<"2", "0", ",", "0", "1">>}
ConcTexts  == {None, <<"1", "0">>, <<"1", "0", ",", "5">>}

Rows ==
    {[k \in {K_PVP, K_DY, K_RISCO, K_ALAV, K_CONC} |->
        CASE k = K_PVP -> p [] k = K_DY -> d [] k = K_RISCO -> q
          [] k = K_ALAV -> a [] k = K_CONC -> c] :
     p \in PVPTexts, d \in DYTexts, q \in RiscoTexts, a \in AlavTexts, c \in ConcTexts}

NoResult == [score |-> 0, veredito |-> "", detalhes |-> <<>>]

ScoreInit ==
    /\ row \in Rows
    /\ px = NoResult
    /\ px_done = FALSE

ParecerCall ==
    /\ ~px_done
    /\ px' = parecer(row)
    /\ px_done' = TRUE
    /\ UNCHANGED <<row, numVars, fetchVars, ledgerVars>>

ScoreNext == ParecerCall

-----------------------------------------------------------------------------
(* Connectors and fetch_all *)

\* The remaining keys of the connectors' dictionaries and of COLUMNS.
K_TICKER   == "Ticker"
K_FONTE1   == "FontePrimaria"
K_FONTE2   == "FonteSecundaria"
K_FONTE3   == "FonteTerciaria"
K_GESTORA  == "Gestora"
K_ANO      == "Ano de inicio"
K_PL       == "Patrimonio liquido (R$ mi/bi)"
K_COT      == "No de cotistas"
K_LIQ      == "Liquidez diaria (R$ mi)"
K_TXADM    == "Taxa de administracao"
K_TXPERF   == "Taxa de performance"
K_CRI      == "Composicao CRI (%)"
K_FII      == "Composicao cotas FII (%)"
K_PERM     == "Composicao permutas (%)"
K_CAIXA    == "Composicao caixa (%)"
K_DY5      == "Dividend Yield 5a (%)"
K_RENT2    == "Rentab 2a (%)"
K_RENT5    == "Rentab 5a (%)"
K_RENT10   == "Rentab 10a (%)"

\* fetch_investidor10 writes this key in a non-raw string literal,
\* "Liquidez diaria (R\$ mi)": the backslash stays in the key.
K_LIQ_I10  == "Liquidez diaria (R\\$ mi)"

\* Plausibility bounds of the connectors, in hundredths.
DY_LO  == 0
DY_HI  == 4000
PVP_LO == 40
PVP_HI == 220

HTTP_OK == 200

\* _ok
_ok(v) == v \notin {None, <<>>, <<"N", "/", "A">>, <<"N", "A">>}

\* _merge
_merge(primary, secondary) ==
    [k \in DOMAIN primary \cup DOMAIN secondary |->
        IF k \in DOMAIN secondary /\ ~_ok(Get(primary, k))
        THEN secondary[k] ELSE primary[k]]

\* _clip whose upper bound is not applied.
_clip_no_upper(value, lo, hi) ==
    IF value = NoNum THEN FALSE ELSE ~NumLt(value, lo)

\* _clip: float(None) raises TypeError, which is caught.
_clip(value, lo, hi) ==
    IF value = NoNum THEN FALSE ELSE ~NumLt(value, lo) /\ NumLe(value, hi)

\* The sanity lines every connector ends with.
Sanity(d) ==
    [k \in DOMAIN d |->
        IF k = K_DY /\ ~_clip(_clean_num(Get(d, K_DY)), DY_LO, DY_HI) THEN None
        ELSE IF k = K_PVP /\ ~_clip(_clean_num(Get(d, K_PVP)), PVP_LO, PVP_HI) THEN None
        ELSE d[k]]

Sources == {"FE", "SI", "I10"}

\* The labels each connector searches its page for.
FELabels  == {K_GESTORA, K_ANO, K_PL, K_COT, K_LIQ, K_TXADM, K_TXPERF, K_PVP, K_DY}
SILabels  == {K_PL, K_COT, K_LIQ, K_PVP, K_DY}
I10Labels == {K_PVP, K_DY, K_PL, K_COT, K_LIQ_I10}

\* The fields FundsExplorer never fills.
FEBlank == {K_CRI, K_FII, K_PERM, K_CAIXA, K_RISCO, K_CONC, K_ALAV,
            K_DY5, K_RENT2, K_RENT5, K_RENT10}

\* fetch_fundsexplorer after a response with status 200; page[k] is what
\* by_label / find_after returns for the label of k (None when nothing is
\* found).
ParseFE(page) ==
    Sanity([k \in {K_FONTE1} \cup FELabels \cup FEBlank |->
              IF k = K_FONTE1 THEN <<"F", "u", "n", "d", "s", "E", "x", "p", "l", "o", "r", "e", "r">>
              ELSE IF k \in FELabels THEN page[k] ELSE None])

\* fetch_statusinvest after a response with status 200; page[k] is what pick
\* returns.
ParseSI(page) ==
    Sanity([k \in {K_FONTE2} \cup SILabels |->
              IF k = K_FONTE2 THEN <<"S", "t", "a", "t", "u", "s", "I", "n", "v", "e", "s", "t">> ELSE page[k]])

\* fetch_investidor10 after a response with status 200; page[k] is what
\* find_after returns.
ParseI10(page) ==
    Sanity([k \in {K_FONTE3} \cup I10Labels |->
              IF k = K_FONTE3 THEN <<"I", "n", "v", "e", "s", "t", "i", "d", "o", "r", "1", "0">> ELSE page[k]])

Parse(src, page) ==
    CASE src = "FE" -> ParseFE(page) [] src = "SI" -> ParseSI(page)
      [] src = "I10" -> ParseI10(page)

\* The body of a connector after requests.get has returned response r.
Connector(src, r) == IF r.status # HTTP_OK THEN <<>> ELSE Parse(src, r.page)

\* str.upper() on the letters of the sampled ticker.
UpperChar(c) ==
    CASE c = "m" -> "M" [] c = "x" -> "X" [] c = "r" -> "R" [] c = "f" -> "F"
      [] OTHER -> c

Upper(s) == [i \in 1..Len(s) |-> UpperChar(s[i])]

\* The ticker fetch_all is called with.
ticker == <<"m", "x", "r", "f", "1", "1">>

\* The last four lines of fetch_all.
Reconcile(base, a, b) ==
    LET merged == _merge(_merge(base, a), b)
    IN  [k \in DOMAIN merged \cup {K_TICKER} |->
            IF k = K_TICKER THEN Upper(ticker) ELSE merged[k]]

\* The pages a source may answer with: what the label search finds for each
\* label.  P/VP, the dividend yield, the daily liquidity and the number of
\* quotaholders vary on their own; net worth is found when the quotaholders
\* are, and FundsExplorer's manager, start year and fees are found together.
FEPages ==
    {[k \in FELabels |->
        CASE k = K_PVP -> p [] k = K_DY -> d [] k = K_LIQ -> l
          [] k = K_COT -> c [] k = K_PL -> (IF c = None THEN None ELSE <<"1", ",", "2">>)
          [] OTHER -> g] :
     p \in {None, <<"0", ",", "3", "9">>, <<"0", ",", "4", "0">>}, d \in {None, <<"4", "0", ",", "0", "1", "%">>, <<"4", "0", ",", "0", "0", "%">>},
     l \in {None, <<"1", ",", "5">>}, c \in {None, <<"1", ".", "0", "0", "0">>}, g \in {None, <<"2">>}}

SIPages ==
    {[k \in SILabels |->
        CASE k = K_PVP -> p [] k = K_DY -> d [] k = K_LIQ -> l
          [] k = K_COT -> c [] k = K_PL -> (IF c = None THEN None ELSE <<"2", ",", "2">>)] :
     p \in {None, <<"2", ",", "2", "1">>, <<"2", ",", "2", "0">>}, d \in {None, <<"-", "1", ",", "0", "0", "%">>, <<"0", ",", "0", "0", "%">>},
     l \in {None, <<"N", "/", "A">>, <<"2", ",", "5">>}, c \in {None, <<"2", ".", "0", "0", "0">>}}

I10Pages ==
    {[k \in I10Labels |->
        CASE k = K_PVP -> p [] k = K_DY -> d [] k = K_LIQ_I10 -> l
          [] k = K_COT -> c [] k = K_PL -> (IF c = None THEN None ELSE <<"3", ",", "2">>)] :
     p \in {None, <<"0">>, <<"1", ",", "0", "2">>}, d \in {None, <<"4", "0", "0", "%">>, <<"1", "0", ",", "2", "%">>},
     l \in {None, <<"3", ",", "5">>}, c \in {None, <<"3", ".", "0", "0", "0">>}}

Pages(src) ==
    CASE src = "FE" -> FEPages [] src = "SI" -> SIPages [] src = "I10" -> I10Pages

\* Statuses other than 200 a source may answer with.
ErrorStatuses == {404, 429, 503}

NoResponse == [status |-> 0, page |-> <<>>]

\* The order fetch_all calls the connectors in.
NextSource(src) ==
    CASE src = "FE" -> "SI" [] src = "SI" -> "I10" [] src = "I10" -> "merge"

FetchInit ==
    /\ pc = <<"get", "FE">>
    /\ resp = [s \in Sources |-> NoResponse]
    /\ rec = [s \in Sources |-> <<>>]
    /\ data = <<>>
    /\ attempts = [s \in Sources |-> 0]

\* requests.get(url, headers=headers, timeout=20) of connector src: one
\* request; it returns a response or raises (timeout, connection error), and
\* nothing in the connector, in fetch_all or in its caller catches that.
Request(src) ==
    /\ pc = <<"get", src>>
    /\ attempts' = [attempts EXCEPT ![src] = @ + 1]
    /\ \/ \E page \in Pages(src) :
             /\ resp' = [resp EXCEPT ![src] = [status |-> HTTP_OK, page |-> page]]
             /\ pc' = <<"parse", src>>
       \/ \E st \in ErrorStatuses :
             /\ resp' = [resp EXCEPT ![src] = [status |-> st, page |-> <<>>]]
             /\ pc' = <<"parse", src>>
       \/ /\ pc' = <<"raised", src>>
          /\ UNCHANGED resp
    /\ UNCHANGED <<rec, data, numVars, scoreVars, ledgerVars>>

\* The rest of connector src, from the status test to its return.
Return(src) ==
    /\ pc = <<"parse", src>>
    /\ rec' = [rec EXCEPT ![src] = Connector(src, resp[src])]
    /\ pc' = IF NextSource(src) = "merge" THEN <<"merge", src>>
             ELSE <<"get", NextSource(src)>>
    /\ UNCHANGED <<resp, data, attempts, numVars, scoreVars, ledgerVars>>

\* The merges of fetch_all and its return.
Merge ==
    /\ pc = <<"merge", "I10">>
    /\ data' = Reconcile(rec["FE"], rec["SI"], rec["I10"])
    /\ pc' = <<"done", "I10">>
    /\ UNCHANGED <<resp, rec, attempts, numVars, scoreVars, ledgerVars>>

FetchNext ==
    \/ \E src \in Sources : Request(src)
    \/ \E src \in Sources : Return(src)
    \/ Merge

-----------------------------------------------------------------------------
(* The ledger data/analises.csv and the page script *)

K_DATA  == "Data"
K_NOTAS == "Notas"

\* The columns of a ledger row that are modelled: the two key columns and
\* the note (the other columns of COLUMNS are carried along like the note).
LedgerCols == {K_DATA, K_TICKER, K_NOTAS}

\* pandas' missing value.
NaN == <<"NaN">>

\* The cell texts read_csv reads as missing, among the sampled texts.
NaTexts == {<<>>, <<"N", "A">>, <<"N", "/", "A">>}

\* read_csv on one cell, to_csv on one value.
ReadCell(text) == IF text \in NaTexts THEN NaN ELSE text
WriteCell(v) == IF v = NaN \/ v = None THEN <<>> ELSE v

\* pd.read_csv: the rows of a CSV text as a frame.
read_csv(rows) ==
    [i \in 1..Len(rows) |-> [c \in DOMAIN rows[i] |-> ReadCell(rows[i][c])]]

\* DataFrame.to_csv(index=False)
to_csv(frame) ==
    [i \in 1..Len(frame) |-> [c \in DOMAIN frame[i] |-> WriteCell(frame[i][c])]]

\* The file does not exist.
NoFile == [exists |-> FALSE, rows |-> <<>>]

\* The file uploader holds no file.
NoUpload == [present |-> FALSE, rows |-> <<>>]

\* load_history: an empty frame when the file is missing; a column the file
\* lacks is added, empty.
load_history(f) ==
    IF ~f.exists THEN <<>>
    ELSE LET frame == read_csv(f.rows)
         IN  [i \in 1..Len(frame) |->
                [c \in LedgerCols |->
                    IF c \in DOMAIN frame[i] THEN frame[i][c] ELSE <<>>]]

\* save_history
save_history(frame) == [exists |-> TRUE, rows |-> to_csv(frame)]

Key(r) == <<r[K_DATA], r[K_TICKER]>>

\* drop_duplicates keeping the first row of each key.
drop_duplicates_keep_first(frame) ==
    LET keep == {i \in 1..Len(frame) :
                    \A j \in 1..(i - 1) : Key(frame[j]) # Key(frame[i])}
        F[i \in 0..Len(frame)] ==
            IF i = 0 THEN <<>>
            ELSE IF i \in keep THEN Append(F[i - 1], frame[i]) ELSE F[i - 1]
    IN  F[Len(frame)]

\* DataFrame.drop_duplicates(subset=["Data","Ticker"], keep="last"): the rows
\* that no later row shares the key of, in their order.
drop_duplicates(frame) ==
    LET keep == {i \in 1..Len(frame) :
                    \A j \in (i + 1)..Len(frame) : Key(frame[j]) # Key(frame[i])}
        F[i \in 0..Len(frame)] ==
            IF i = 0 THEN <<>>
            ELSE IF i \in keep THEN Append(F[i - 1], frame[i]) ELSE F[i - 1]
    IN  F[Len(frame)]

\* The submit handler of form_save: load, append the form's row, save.
SaveAnalysis(f, formRow) == save_history(load_history(f) \o <<formRow>>)

\* The upload handler: the frame loaded for the history table, the uploaded
\* rows appended, duplicates of (Data, Ticker) dropped, saved.
MergeUpload(frame, upload) ==
    save_history(drop_duplicates(frame \o read_csv(upload)))

\* The dates of the model, as strftime("%Y-%m-%d") writes them: the day
\* before the session and the day of the session.
Dates == <<<<"2", "0", "2", "6", "-", "1", "1", "-", "0", "1">>,
          <<"2", "0", "2", "6", "-", "1", "1", "-", "0", "2">>>>

\* datetime.now().strftime("%Y-%m-%d") during the session.
Today == Dates[Len(Dates)]

Tickers     == {<<"M", "X", "R", "F", "1", "1">>, <<"H", "G", "L", "G", "1", "1">>}
FormNotes   == {<<>>, <<"a">>}
UploadNotes == {<<"u">>}

\* The CSV files a user may upload: rows with the key columns and a note.
UploadRows ==
    {[c \in LedgerCols |->
        CASE c = K_DATA -> Dates[d] [] c = K_TICKER -> tk [] c = K_NOTAS -> n] :
     d \in 1..Len(Dates), tk \in Tickers, n \in UploadNotes}

Uploads ==
    {[present |-> TRUE, rows |-> f] :
        f \in UNION {[1..n -> UploadRows] : n \in 0..MaxUpload}}

\* One run of the page script, from top to bottom.  `submitted` tells
\* whether the run was started by the form's submit button; widget is the
\* file held by the file uploader during the run.
ScriptRun(submitted, formRow, widget) ==
    LET saved  == IF submitted THEN SaveAnalysis(file, formRow) ELSE file
        frame  == load_history(saved)
        merged == IF widget.present THEN MergeUpload(frame, widget.rows) ELSE saved
    IN  /\ file' = merged
        /\ df' = frame
        /\ up' = widget
        /\ lastRun' = [saved |-> submitted, merged |-> widget.present]

LedgerInit ==
    /\ file = NoFile
    /\ df = <<>>
    /\ up = NoUpload
    /\ lastRun = [saved |-> FALSE, merged |-> FALSE]

\* "Salvar analise" is pressed with a ticker and a note in the form.
Save ==
    /\ Len(load_history(file)) < MaxRows
    /\ \E tk \in Tickers, n \in FormNotes :
           ScriptRun(TRUE,
                     [c \in LedgerCols |->
                        CASE c = K_DATA -> Today [] c = K_TICKER -> tk
                          [] c = K_NOTAS -> n],
                     up)
    /\ UNCHANGED <<numVars, scoreVars, fetchVars>>

\* A CSV file is put into the empty file uploader (a file replaces another
\* by being taken out first).
Upload ==
    /\ ~up.present
    /\ \E f \in Uploads : ScriptRun(FALSE, <<>>, f)
    /\ UNCHANGED <<numVars, scoreVars, fetchVars>>

\* The history is downloaded ("Baixar historico (CSV)": df.to_csv) and the
\* downloaded file is put into the empty file uploader.
UploadExport ==
    /\ ~up.present
    /\ ScriptRun(FALSE, <<>>, [present |-> TRUE, rows |-> to_csv(load_history(file))])
    /\ UNCHANGED <<numVars, scoreVars, fetchVars>>

\* The file is taken out of the file uploader.
ClearUpload ==
    /\ up.present
    /\ ScriptRun(FALSE, <<>>, NoUpload)
    /\ UNCHANGED <<numVars, scoreVars, fetchVars>>

\* Any other interaction reruns the script.
Rerun ==
    /\ ScriptRun(FALSE, <<>>, up)
    /\ UNCHANGED <<numVars, scoreVars, fetchVars>>

LedgerNext == Save \/ Upload \/ UploadExport \/ ClearUpload \/ Rerun

-----------------------------------------------------------------------------
(* Specifications: each part of the program on its own *)

\* While one part is checked the variables of the others keep these values.
IdleRow      == <<>>
IdlePc       == <<"idle", "FE">>
IdleLastRun  == [saved |-> FALSE, merged |-> FALSE]

InitNum ==
    /\ NumInit
    /\ row = IdleRow /\ px = NoResult /\ px_done = FALSE
    /\ pc = IdlePc /\ resp = <<>> /\ rec = <<>> /\ data = <<>> /\ attempts = <<>>
    /\ file = NoFile /\ df = <<>> /\ up = NoUpload
    /\ lastRun = IdleLastRun

InitScore ==
    /\ ScoreInit
    /\ s_in = <<>> /\ num_out = NoNum /\ num_done = FALSE
    /\ pc = IdlePc /\ resp = <<>> /\ rec = <<>> /\ data = <<>> /\ attempts = <<>>
    /\ file = NoFile /\ df = <<>> /\ up = NoUpload
    /\ lastRun = IdleLastRun

InitFetch ==
    /\ FetchInit
    /\ s_in = <<>> /\ num_out = NoNum /\ num_done = FALSE
    /\ row = IdleRow /\ px = NoResult /\ px_done = FALSE
    /\ file = NoFile /\ df = <<>> /\ up = NoUpload
    /\ lastRun = IdleLastRun

InitLedger ==
    /\ LedgerInit
    /\ s_in = <<>> /\ num_out = NoNum /\ num_done = FALSE
    /\ row = IdleRow /\ px = NoResult /\ px_done = FALSE
    /\ pc = IdlePc /\ resp = <<>> /\ rec = <<>> /\ data = <<>> /\ attempts = <<>>

SpecNum    == InitNum /\ [][NumNext]_vars
SpecScore  == InitScore /\ [][ScoreNext]_vars
SpecFetch  == InitFetch /\ [][FetchNext]_vars
SpecLedger == InitLedger /\ [][LedgerNext]_vars

-----------------------------------------------------------------------------
(* C10 *)

C10_Kept(s) == SelectSeq(s, LAMBDA c : c \in Digits \cup {",", ".", "-"})

\* Digits, commas and dots are kept; a sign is kept only when nothing kept
\* stands before it.
RECURSIVE C10_KeptLeadingSign(_, _)
C10_KeptLeadingSign(s, first) ==
    IF s = <<>> THEN <<>>
    ELSE IF Head(s) \in Digits \cup {",", "."}
         THEN <<Head(s)>> \o C10_KeptLeadingSign(Tail(s), FALSE)
    ELSE IF Head(s) \in {"-", "+"} /\ first
         THEN <<Head(s)>> \o C10_KeptLeadingSign(Tail(s), FALSE)
    ELSE C10_KeptLeadingSign(Tail(s), first)

C10_Decimal(t) ==
    LET commas == Count(t, ",")
        dots   == Count(t, ".")
        nodots == SelectSeq(t, LAMBDA c : c # ".")
    IN  IF commas = 1 /\ dots >= 1
        THEN [i \in 1..Len(nodots) |-> IF nodots[i] = "," THEN "." ELSE nodots[i]]
        ELSE IF commas = 1 /\ dots = 0
        THEN [i \in 1..Len(t) |-> IF t[i] = "," THEN "." ELSE t[i]]
        ELSE t

\* A text float() accepts, among the texts over digits, ",", "." and "-".
C10_IsNumeral(t) ==
    LET b == IF t # <<>> /\ t[1] = "-" THEN Tail(t) ELSE t
    IN  /\ \A i \in 1..Len(b) : b[i] \in Digits \cup {"."}
        /\ Count(b, ".") <= 1
        /\ \E i \in 1..Len(b) : b[i] \in Digits

\* C10 (as amended): _clean_num deletes every character except digits, ",",
\* "." and "-" (a "-" is kept wherever it stands), then, with exactly one
\* comma and at least one dot, drops the dots and makes the comma the decimal
\* point, or with exactly one comma and no dot makes the comma the decimal
\* point, and parses the result: the value is absent exactly when that text is
\* no numeral, and it is zero only when the input has a digit and all its
\* digits are 0.
C10_CleanNumFollowsAlgorithm ==
    num_done =>
        LET t == C10_Decimal(C10_Kept(s_in))
        IN  /\ (num_out = NoNum) <=> ~C10_IsNumeral(t)
            /\ num_out = float(t)
            /\ (num_out # NoNum /\ num_out[1] = 0) =>
                   /\ \E i \in 1..Len(s_in) : s_in[i] \in Digits
                   /\ \A i \in 1..Len(s_in) : s_in[i] \in Digits => s_in[i] = "0"

\* C10 witness: a text with one comma and a dot has been converted to a number.
C10_Witness ==
    /\ num_done
    /\ Count(s_in, ",") = 1
    /\ Count(s_in, ".") >= 1
    /\ num_out # NoNum

\* C10 as stated: only a leading sign survives the clean-up, so a "-" inside
\* the text is deleted before parsing.
C10_Original ==
    num_done => num_out = float(C10_Decimal(C10_KeptLeadingSign(s_in, TRUE)))

-----------------------------------------------------------------------------
(* C1, C2, C3, C9 *)

\* The indicators the connectors extract, named by their column.
Indicators == FELabels

\* The sources from the most to the least trusted.
TrustOrder == <<"FE", "SI", "I10">>

\* The key under which a source's record holds an indicator.
SourceKey(src, ind) == IF src = "I10" /\ ind = K_LIQ THEN K_LIQ_I10 ELSE ind

SourceValue(src, ind) == Get(rec[src], SourceKey(src, ind))

\* What the label search of the source's page found for an indicator.
Extracted(src, ind) ==
    IF resp[src].status = HTTP_OK /\ SourceKey(src, ind) \in DOMAIN resp[src].page
    THEN resp[src].page[SourceKey(src, ind)] ELSE None

Done == pc[1] = "done"

\* Connector src has returned to fetch_all.
Returned(src) ==
    \/ pc[1] \in {"merge", "done"}
    \/ /\ pc[1] \in {"get", "parse"}
       /\ \E i, j \in 1..3 : i < j /\ TrustOrder[i] = src /\ TrustOrder[j] = pc[2]

\* C1: for every indicator, the consolidated value is the value of the most
\* trusted source that has a present value for it.
C1_PerIndicatorPrecedence ==
    Done =>
        \A ind \in Indicators :
            \A i \in 1..3 :
                (/\ _ok(SourceValue(TrustOrder[i], ind))
                 /\ \A j \in 1..(i - 1) : ~_ok(SourceValue(TrustOrder[j], ind)))
                => Get(data, ind) = SourceValue(TrustOrder[i], ind)

\* The bound a connector applies to an indicator: P/VP within [0.4, 2.2],
\* the dividend yield within [0, 40]; the connectors bound no other indicator.
C2_Passes(ind, v) ==
    LET n == _clean_num(v)
    IN  /\ ind = K_PVP => n # NoNum /\ ~NumLt(n, 40) /\ NumLe(n, 220)
        /\ ind = K_DY  => n # NoNum /\ ~NumLt(n, 0) /\ NumLe(n, 4000)

\* C2: every present indicator value of the consolidated record was
\* extracted by a source and passed that source's plausibility filter, and an
\* indicator that every source misses or reports implausibly is absent.
C2_PresentValuesArePlausible ==
    Done =>
        \A ind \in Indicators :
            LET v == Get(data, ind)
            IN  /\ _ok(v) =>
                     /\ \E src \in Sources : Extracted(src, ind) = v
                     /\ C2_Passes(ind, v)
                /\ (\A src \in Sources :
                       \/ ~_ok(Extracted(src, ind))
                       \/ ~C2_Passes(ind, Extracted(src, ind)))
                   => ~_ok(v)

\* C2 witness: FundsExplorer reported an implausible P/VP, which was dropped,
\* and the consolidated record holds StatusInvest's plausible one.
C2_Witness ==
    /\ Done
    /\ Extracted("FE", K_PVP) = <<"0", ",", "3", "9">>
    /\ Get(data, K_PVP) = <<"2", ",", "2", "0">>
    /\ Extracted("I10", K_DY) = <<"4", "0", "0", "%">>
    /\ ~_ok(Get(data, K_DY))

\* C3: no outcome of a connector's request raises an error, and a response
\* that is not 2xx yields an empty source record.
C3_FailuresNeverRaise ==
    /\ pc[1] # "raised"
    /\ \A src \in Sources :
           (Returned(src) /\ resp[src].status \notin 200..299) => rec[src] = <<>>

\* C9: a request answered with 429 or 5xx is retried, so a connector is left
\* with such a status only after 5 attempts.
C9_RetriedUpToCeiling ==
    \A src \in Sources :
        (Returned(src) /\ resp[src].status \in {429} \cup 500..599)
        => attempts[src] = 5

-----------------------------------------------------------------------------
(* C5, C6, C7 *)

Keys(frame) == {Key(frame[i]) : i \in 1..Len(frame)}

\* The last row of the frame with the key.
LastWith(frame, key) ==
    frame[CHOOSE i \in 1..Len(frame) :
              /\ Key(frame[i]) = key
              /\ \A j \in (i + 1)..Len(frame) : Key(frame[j]) # key]

\* The stored ledger as load_history reads it.
Stored == load_history(file)

\* The rows read from the uploaded file, when the last run merged one.
Incoming == read_csv(up.rows)

\* The incoming rows are two, one with a key of the stored ledger and one
\* with a new key.
C5_OneOverlapOneNew ==
    /\ Len(Incoming) = 2
    /\ Key(Incoming[1]) # Key(Incoming[2])
    /\ Cardinality(Keys(Incoming) \cap Keys(df)) = 1

\* A stored row whose key is unique in the stored ledger and does not occur
\* in the incoming rows.
C5_Untouched(i) ==
    /\ Key(df[i]) \notin Keys(Incoming)
    /\ \A j \in 1..Len(df) : Key(df[j]) = Key(df[i]) => j = i

\* C5: after a merge the ledger holds exactly one entry for each key of the
\* stored or the incoming rows, the last one of stored-then-incoming; a stored
\* entry with a unique key that the incoming rows lack is kept unchanged; one
\* overlapping and one new incoming key add exactly one key.
C5_MergeKeepsLastPerKey ==
    lastRun.merged =>
        LET cat == df \o Incoming
        IN  /\ Keys(Stored) = Keys(cat)
            /\ \A key \in Keys(cat) :
                   /\ Cardinality({i \in 1..Len(Stored) : Key(Stored[i]) = key}) = 1
                   /\ \E i \in 1..Len(Stored) : Stored[i] = LastWith(cat, key)
            /\ \A i \in 1..Len(df) :
                   C5_Untouched(i) => \E j \in 1..Len(Stored) : Stored[j] = df[i]
            /\ C5_OneOverlapOneNew =>
                   Cardinality(Keys(Stored)) = Cardinality(Keys(df)) + 1

\* C5 witness: a merge of two incoming rows, one replacing a stored entry
\* with a different note and one new, beside a stored entry it leaves alone.
C5_Witness ==
    /\ lastRun.merged
    /\ C5_OneOverlapOneNew
    /\ \E i \in 1..Len(df) : C5_Untouched(i)
    /\ \E i \in 1..Len(df), j \in 1..2 :
           Key(df[i]) = Key(Incoming[j]) /\ df[i] # Incoming[j]

\* C6: the stored ledger holds at most one entry for each (date, entity id)
\* key, the later of two entries saved under the same key.
C6_OneEntryPerKey ==
    \A i, j \in 1..Len(Stored) : Key(Stored[i]) = Key(Stored[j]) => i = j

\* C7: merging the loaded ledger with no new entries (an upload without rows,
\* or the downloaded ledger itself) leaves the stored ledger as it was.
C7_MergeWithoutNewEntriesIsNoOp ==
    (/\ lastRun.merged
     /\ ~lastRun.saved
     /\ up.rows \in {<<>>, to_csv(df)})
    => Stored = df

-----------------------------------------------------------------------------
(* C4 *)

C4_Num(k) == _clean_num(Get(row, k))

\* The increments of the numeric rules of the table, an absent indicator
\* contributing 0.
C4_NumericIncrements ==
    LET pvp == C4_Num(K_PVP)  dy == C4_Num(K_DY)
        alav == C4_Num(K_ALAV)  conc == C4_Num(K_CONC)
    IN  (IF pvp = NoNum THEN 0
         ELSE IF NumLt(pvp, 95) THEN 2 ELSE IF NumLe(pvp, 105) THEN 1 ELSE 0 - 1)
      + (IF dy = NoNum THEN 0
         ELSE IF ~NumLt(dy, 1200) THEN 2 ELSE IF ~NumLt(dy, 900) THEN 1 ELSE 0 - 1)
      + (IF alav # NoNum /\ ~NumLe(alav, 2000) THEN 0 - 1 ELSE 0)
      + (IF conc # NoNum /\ ~NumLe(conc, 1000) THEN 0 - 1 ELSE 0)

\* Risk rule as the code has it: "high yield" or "alto" -1; otherwise
\* "middle" or "medio" 0; otherwise "grade" or "baixo" +1.
C4_RiskIncrement ==
    LET r == RiscoText(row)
    IN  IF Contains(r, HIGH_YIELD) \/ Contains(r, ALTO) THEN 0 - 1
        ELSE IF Contains(r, MIDDLE) \/ Contains(r, MEDIO) THEN 0
        ELSE IF Contains(r, GRADE) \/ Contains(r, BAIXO) THEN 1
        ELSE 0

\* Risk rule as the claim words it: containing "high" -1, containing
\* "grade" or low +1.
C4_RiskIncrementAsStated ==
    LET r == RiscoText(row)
    IN  IF Contains(r, <<"h", "i", "g", "h">>) \/ Contains(r, ALTO) THEN 0 - 1
        ELSE IF Contains(r, GRADE) \/ Contains(r, BAIXO) THEN 1
        ELSE 0

C4_Verdict(total) ==
    IF total >= 3 THEN "Vale a pena (barato/atrativo)"
    ELSE IF total >= 1 THEN "Ok/Neutro (preco justo)"
    ELSE "Nao vale / Cuidado (caro ou arriscado)"

C4_AllAbsent == \A k \in DOMAIN row : row[k] = None

\* C4 (as amended): the score of parecer is the sum of the rule-table
\* increments, where the risk rule gives -1 for a classification containing
\* "high yield" or "alto", 0 for one otherwise containing "middle" or "medio",
\* and +1 for one otherwise containing "grade" or "baixo"; an absent indicator
\* contributes 0; the verdict is "attractive" for a total >= 3, "neutral/fair"
\* for >= 1 and "expensive/caution" otherwise, so an all-absent record scores
\* 0 with verdict "expensive/caution".
C4_ScoreIsRuleSum ==
    px_done =>
        /\ px.score = C4_NumericIncrements + C4_RiskIncrement
        /\ px.veredito = C4_Verdict(px.score)
        /\ C4_AllAbsent =>
               px.score = 0 /\ px.veredito = "Nao vale / Cuidado (caro ou arriscado)"

\* C4 witness: a discounted, high-yielding "High Grade" record has been scored
\* attractive.
C4_Witness ==
    /\ px_done
    /\ C4_Num(K_PVP) # NoNum /\ NumLt(C4_Num(K_PVP), 95)
    /\ C4_Num(K_DY) # NoNum /\ ~NumLt(C4_Num(K_DY), 1200)
    /\ Contains(RiscoText(row), GRADE)
    /\ px.score = 5
    /\ px.veredito = "Vale a pena (barato/atrativo)"

\* C4 as stated: every classification containing "high" costs a point.
C4_Original ==
    px_done =>
        /\ px.score = C4_NumericIncrements + C4_RiskIncrementAsStated
        /\ px.veredito = C4_Verdict(px.score)

-----------------------------------------------------------------------------
(* C8 *)

\* The rule of the table (1 price-to-book, 2 dividend yield, 3 risk,
\* 4 leverage, 5 concentration) a message belongs to.
C8_RuleOf(m) ==
    IF m \in {"P/VP indisponivel.", "P/VP < 0,95 desconto interessante",
              "P/VP ~ 1 preco justo", "P/VP > 1,05 premio; pode estar caro"} THEN 1
    ELSE IF m \in {"DY renda alta", "DY renda ok", "DY renda baixa"} THEN 2
    ELSE IF m \in {"Classificacao High Yield risco elevado", "Risco medio (middle)",
                   "Risco baixo (high grade)"} THEN 3
    ELSE IF m \in {"Alavancagem cuidado", "Alavancagem ok"} THEN 4
    ELSE 5

C8_Explained == {C8_RuleOf(px.detalhes[i]) : i \in 1..Len(px.detalhes)}

\* The rules that contributed a signed increment.
C8_Fired ==
    LET alav == C4_Num(K_ALAV)  conc == C4_Num(K_CONC)
    IN  {i \in 1..5 :
           \/ i = 1 /\ C4_Num(K_PVP) # NoNum
           \/ i = 2 /\ C4_Num(K_DY) # NoNum
           \/ i = 3 /\ C4_RiskIncrement # 0
           \/ i = 4 /\ alav # NoNum /\ ~NumLe(alav, 2000)
           \/ i = 5 /\ conc # NoNum /\ ~NumLe(conc, 1000)}

\* The rules that add a string without an increment: price-to-book absent,
\* a middle risk class, a leverage above 0 and up to 20.
C8_Neutral ==
    LET alav == C4_Num(K_ALAV)
        r    == RiscoText(row)
    IN  {i \in 1..5 :
           \/ i = 1 /\ C4_Num(K_PVP) = NoNum
           \/ i = 3 /\ ~(Contains(r, HIGH_YIELD) \/ Contains(r, ALTO))
                    /\ (Contains(r, MIDDLE) \/ Contains(r, MEDIO))
           \/ i = 4 /\ alav # NoNum /\ NumLe(alav, 2000) /\ ~NumLe(alav, 0)}

C8_InRuleOrder ==
    \A i, j \in 1..Len(px.detalhes) :
        i < j => C8_RuleOf(px.detalhes[i]) < C8_RuleOf(px.detalhes[j])

\* C8 (as amended): the explanation list holds exactly one string for each
\* rule that contributed a signed increment, and also one for an absent
\* price-to-book ("unavailable"), for a middle risk class and for a leverage
\* above 0 and up to 20, none of which changes the score; no string for an
\* absent dividend yield, leverage or concentration; the strings are in
\* rule-table order.
C8_ExplanationPerRule ==
    px_done =>
        /\ C8_InRuleOrder
        /\ C8_Explained = C8_Fired \cup C8_Neutral

\* C8 witness: all five rules of a record have fired and been explained.
C8_Witness ==
    /\ px_done
    /\ C8_Fired = 1..5
    /\ Len(px.detalhes) = 5

\* C8 as stated: a string for each rule that contributed an increment and for
\* no other rule.
C8_Original ==
    px_done =>
        /\ C8_InRuleOrder
        /\ C8_Explained = C8_Fired

=============================================================================
